---- MODULE Spec2Model ----
(***************************************************************************)
(* Subcommand registry and dispatch of the package `command`.              *)
(*                                                                         *)
(* Two variants of the package are modelled:                               *)
(*   - the instance variant (type Path: Add, Run), src/README.md:63-212;   *)
(*   - the process-wide variant (On, Parse, Run), src/command.go:1-171.    *)
(*                                                                         *)
(* A command-line token is a sequence of one-character strings, so that    *)
(* the flag package's tokenisation ("-name", "-name=value", "--", a lone   *)
(* "-") is computed from the characters, as flag.FlagSet.parseOne does.    *)
(*                                                                         *)
(* The flag sets are those of Go's package flag: a FlagSet keeps the flags *)
(* set by every Parse so far and the arguments the last Parse left over.   *)
(* Descriptions and the text of the usage messages are left out; a usage   *)
(* message is an event that names which message was printed.               *)
(***************************************************************************)
EXTENDS Integers, Sequences, FiniteSets, TLC

\* ------------------------------------------------------------------ bounds

\* Longest tail of tokens after the subcommand name in one argument vector.
MaxRest == 2

\* ------------------------------------------------------------------ tokens

tShip  == <<"s">>
tGreet == <<"g">>
tEnvP  == <<"-", "e", "=", "p">>
tV     == <<"-", "v">>
tHelp  == <<"-", "h">>
tWorld == <<"w">>

fEnv  == <<"e">>
fV    == <<"v">>
fHelp == <<"h">>

\* The names a caller asks for.  Commands are registered under tShip; tGreet
\* is a name no command is registered under.
Names == {tShip, tGreet}

\* Tokens that may follow the subcommand name.
RestTokens == {tEnvP, tV, tWorld}

RECURSIVE SeqsUpTo(_, _)
SeqsUpTo(S, n) ==
    IF n = 0 THEN {<<>>}
    ELSE LET shorter == SeqsUpTo(S, n - 1)
         IN  shorter \cup {<<x>> \o s : x \in S, s \in {t \in shorter : Len(t) = n - 1}}

Rests == SeqsUpTo(RestTokens, MaxRest)

\* Argument vectors handed to Path.Run: the empty vector, or a name and a rest.
ArgVectors == {<<>>} \cup {<<n>> \o r : n \in Names, r \in Rests}

\* ------------------------------------------------------------------ errors

Err(kind)    == [kind |-> kind, keys |-> <<>>]
NilErr       == Err("nil")
ErrCmdUsage  == Err("ErrCmdUsage")
ErrNoSuchCmd == Err("ErrNoSuchCmd")
ErrHelp      == Err("flag.ErrHelp")
ErrRequired(keys) == [kind |-> "RequiredFlagsNotSet", keys |-> keys]

\* What a command's run operation may return.
RunReturns == {NilErr, Err("runFailed")}

\* ------------------------------------------------------------- flag package

\* A FlagSet: the declared flags (name -> "bool" | "string"), the flags set by
\* a parse (actual), the current value of every declared flag, and the
\* arguments left over (args).
NoFlags == [n \in {} |-> "bool"]

NewFlagSet ==
    [formal |-> NoFlags, actual |-> {}, value |-> NoFlags, args |-> <<>>]

Declare(fs, name, type, dflt) ==
    [fs EXCEPT !.formal = (name :> type) @@ @,
               !.value  = (name :> dflt) @@ @]

\* Index of the first "=" of name at position 2 or later, 0 when there is none.
RECURSIVE EqualsAt(_, _)
EqualsAt(name, i) ==
    IF i > Len(name) THEN 0
    ELSE IF name[i] = "=" THEN i
    ELSE EqualsAt(name, i + 1)

\* strconv.ParseBool on the values the model uses.
BoolValues == {<<"t">>, <<"f">>, <<"1">>, <<"0">>}
ParseBool(v) == v \in {<<"t">>, <<"1">>}

\* One step of flag.FlagSet.parseOne: [fs, seen, err].
ParseOne(fs) ==
    LET stop(f) == [fs |-> f, seen |-> FALSE, err |-> NilErr]
        fail(f, e) == [fs |-> f, seen |-> FALSE, err |-> e]
    IN
    IF Len(fs.args) = 0 THEN stop(fs)
    ELSE
    LET s == Head(fs.args) IN
    IF Len(s) < 2 \/ s[1] # "-" THEN stop(fs)
    ELSE
    LET numMinuses == IF s[2] = "-" THEN 2 ELSE 1 IN
    IF numMinuses = 2 /\ Len(s) = 2
    THEN stop([fs EXCEPT !.args = Tail(@)])
    ELSE
    LET name0 == SubSeq(s, numMinuses + 1, Len(s)) IN
    IF Len(name0) = 0 \/ name0[1] = "-" \/ name0[1] = "="
    THEN fail(fs, Err("bad flag syntax"))
    ELSE
    LET f1       == [fs EXCEPT !.args = Tail(@)]
        eq       == EqualsAt(name0, 2)
        hasValue == eq # 0
        value    == IF hasValue THEN SubSeq(name0, eq + 1, Len(name0)) ELSE <<>>
        name     == IF hasValue THEN SubSeq(name0, 1, eq - 1) ELSE name0
    IN
    IF name \notin DOMAIN f1.formal
    THEN IF name = <<"h", "e", "l", "p">> \/ name = fHelp
         THEN fail(f1, ErrHelp)
         ELSE fail(f1, Err("flag provided but not defined"))
    ELSE
    IF f1.formal[name] = "bool"
    THEN IF hasValue
         THEN IF value \in BoolValues
              THEN [fs   |-> [f1 EXCEPT !.value[name] = ParseBool(value),
                                        !.actual = @ \cup {name}],
                    seen |-> TRUE, err |-> NilErr]
              ELSE fail(f1, Err("invalid boolean value"))
         ELSE [fs   |-> [f1 EXCEPT !.value[name] = TRUE,
                                   !.actual = @ \cup {name}],
               seen |-> TRUE, err |-> NilErr]
    ELSE
    IF ~hasValue /\ Len(f1.args) = 0
    THEN fail(f1, Err("flag needs an argument"))
    ELSE
    LET v  == IF hasValue THEN value ELSE Head(f1.args)
        f2 == IF hasValue THEN f1 ELSE [f1 EXCEPT !.args = Tail(@)]
    IN  [fs   |-> [f2 EXCEPT !.value[name] = v, !.actual = @ \cup {name}],
         seen |-> TRUE, err |-> NilErr]

RECURSIVE ParseLoop(_)
ParseLoop(fs) ==
    LET r == ParseOne(fs)
    IN  IF r.seen THEN ParseLoop(r.fs) ELSE [fs |-> r.fs, err |-> r.err]

\* flag.FlagSet.Parse(arguments): f.args = arguments, then parseOne until it
\* stops.  The flags set by earlier parses (actual) and their values stay.
FlagParse(fs, arguments) == ParseLoop([fs EXCEPT !.args = arguments])

\* flag.FlagSet.Visit: the names of the flags that have been set.
Visited(fs) == fs.actual

\* -------------------------------------------------------------- commands

\* The commands a caller registers.  "ship" declares a string flag e and a
\* bool flag v; "echo" declares the bool flag v; "fn" is a CmdFunc, which
\* declares nothing.
Cmds == {"ship", "echo", "fn"}

\* Cmd.Flags(fs): the command declares its flags on fs.
CmdFlags(command, fs) ==
    CASE command = "ship" -> Declare(Declare(fs, fEnv, "string", <<>>), fV, "bool", FALSE)
      [] command = "echo" -> Declare(fs, fV, "bool", FALSE)
      [] OTHER            -> fs

\* One registration: a name, a command and its required-flag list.
Reg(n, c, q) == [name |-> n, command |-> c, requiredFlags |-> q]

\* The registrations a caller makes.
Regs ==
    {Reg(tShip, "ship", <<fV, fEnv>>), Reg(tShip, "echo", <<fV>>), Reg(tShip, "fn", <<>>)}

\* ------------------------------------------------------------------ state

VARIABLES
    entries,    \* Path.entries: name -> CmdCont
    lastAdd,    \* history: name -> the command of the last Add of the name,
                \* and whether an earlier Add of the name gave another command
    lastOp,     \* the operation that ran last: "none", "Add", "Run"
    lastArgs,   \* the argument vector, when the last operation was a Path.Run
    ret,        \* what it returned: [cont, err]
    ran,        \* the run operations it invoked: <<[cmd, args, returned]>>
    \* the process-wide variant (src/command.go)
    osArgs,      \* os.Args[1:], fixed for the life of the process
    cmds,        \* cmds: name -> cmdCont
    matchingCmd, \* the cmdCont Parse matched, NoMatch for nil
    args,        \* the leftover arguments Parse cached
    flagHelp,    \* *flagHelp: "nil" (no flag set made yet), "true", "false"
    flagUsage,   \* flag.Usage: "default" until Parse sets it to "Usage"
    pc,          \* "running", or "exited" after os.Exit
    exitCode,    \* the status os.Exit was given
    gOp,         \* the operation that ran last: "none", "On", "Parse", "Run"
    evs,         \* what it printed and invoked, in order
    gret         \* what the last Run() returned

pathVars == <<entries, lastAdd, lastOp, lastArgs, ret, ran>>

globalVars ==
    <<osArgs, cmds, matchingCmd, args, flagHelp, flagUsage, pc, exitCode, gOp, evs, gret>>

NoEntries == [n \in {} |-> 0]
NoCont    == [Name |-> <<>>, Cmd |-> "nil"]
ContOf(c) == [Name |-> c.Name, Cmd |-> c.Cmd]

Range(s) == {s[i] : i \in DOMAIN s}

\* The orders in which Go may iterate over a map with the keys S.
MapOrders(S) ==
    {q \in [1 .. Cardinality(S) -> S] : Range(q) = S}

\* NewPath()
PathInit ==
    /\ entries = NoEntries
    /\ lastAdd = NoEntries
    /\ lastOp = "none"
    /\ lastArgs = <<>>
    /\ ret = [cont |-> NoCont, err |-> NilErr]
    /\ ran = <<>>

\* The CmdCont that Path.Add builds.
NewCmdCont(name, command, requiredFlags) ==
    [Cmd           |-> command,
     Name          |-> name,
     RequiredFlags |-> requiredFlags,
     Flags         |-> CmdFlags(command, NewFlagSet)]

\* Mutant of Store: an existing entry is kept (first write wins).
Store_KeepFirst(es, name, c) == IF name \in DOMAIN es THEN es ELSE (name :> c) @@ es

\* p.entries[name] = c
Store(es, name, c) == (name :> c) @@ es

\* Whether this Add of name, or an earlier one, replaced another command.
Replaces(name, command) ==
    /\ name \in DOMAIN lastAdd
    /\ lastAdd[name].replaced \/ lastAdd[name].command # command

\* Path.Add(name, description, command, requiredFlags...)
Add(name, command, requiredFlags) ==
    /\ entries' = Store(entries, name, NewCmdCont(name, command, requiredFlags))
    /\ lastAdd' = (name :> [command  |-> command,
                            replaced |-> Replaces(name, command)]) @@ lastAdd
    /\ lastOp' = "Add"
    /\ lastArgs' = <<>>
    /\ ret' = [cont |-> NoCont, err |-> NilErr]
    /\ ran' = <<>>

\* Mutant of IsUsageCase: the size of the registry is not looked at.
IsUsageCase_ArgsOnly(es, argv) == Len(argv) < 1

\* len(p.entries) < 1 || len(args) < 1
IsUsageCase(es, argv) == Cardinality(DOMAIN es) < 1 \/ Len(argv) < 1

\* return nil, ErrCmdUsage
UsageResult == [cont |-> NoCont, err |-> ErrCmdUsage]

\* Mutant of NotFoundResult: the usage error stands in for ErrNoSuchCmd.
NotFoundResult_Usage == UsageResult

\* return nil, ErrNoSuchCmd
NotFoundResult == [cont |-> NoCont, err |-> ErrNoSuchCmd]

\* cont, ok := p.entries[args[0]]
Found(es, argv) == argv[1] \in DOMAIN es

\* Mutant of ParseArgs: the error of Parse is dropped.
ParseArgs_ErrorIgnored(fs, argv) ==
    IF Len(argv) > 1 THEN [fs |-> FlagParse(fs, Tail(argv)).fs, err |-> NilErr]
    ELSE [fs |-> fs, err |-> NilErr]

\* if len(args) > 1 { err := cont.Flags.Parse(args[1:]) }
ParseArgs(fs, argv) ==
    IF Len(argv) > 1 THEN FlagParse(fs, Tail(argv))
    ELSE [fs |-> fs, err |-> NilErr]

\* missingFlags: the required names less the names cont.Flags.Visit reports.
MissingFlags(requiredFlags, fs) == Range(requiredFlags) \ Visited(fs)

\* cont.Flags.Args()
LeftoverArgs(fs) == fs.args

\* Mutant of RunResult: the error of the run operation is dropped.
RunResult_DropsError(cont, r) == [cont |-> ContOf(cont), err |-> NilErr]

\* return cont, cont.Run(cont.Flags.Args()...)
RunResult(cont, r) == [cont |-> ContOf(cont), err |-> r]

\* Path.Run(args...)
Run(argv) ==
    /\ lastOp' = "Run"
    /\ lastArgs' = argv
    /\ UNCHANGED lastAdd
    /\ IF IsUsageCase(entries, argv)
       THEN /\ ret' = UsageResult
            /\ ran' = <<>>
            /\ UNCHANGED entries
       ELSE IF Found(entries, argv)
       THEN LET cont == entries[argv[1]]
                p    == ParseArgs(cont.Flags, argv)
                miss == MissingFlags(cont.RequiredFlags, p.fs)
            IN  /\ entries' = [entries EXCEPT ![argv[1]].Flags = p.fs]
                /\ IF p.err # NilErr
                   THEN /\ ret' = [cont |-> ContOf(cont), err |-> p.err]
                        /\ ran' = <<>>
                   ELSE IF miss # {}
                   THEN /\ \E keys \in MapOrders(miss) :
                               ret' = [cont |-> ContOf(cont), err |-> ErrRequired(keys)]
                        /\ ran' = <<>>
                   ELSE \E r \in RunReturns :
                            /\ ret' = RunResult(cont, r)
                            /\ ran' = <<[cmd      |-> cont.Cmd,
                                         args     |-> LeftoverArgs(p.fs),
                                         returned |-> r]>>
       ELSE /\ ret' = NotFoundResult
            /\ ran' = <<>>
            /\ UNCHANGED entries

\* ------------------------------------------- the process-wide variant

\* Tokens of the process's command line.
tQuiet == <<"-", "q">>
fQuiet == <<"q">>
OsTokens == {tShip, tGreet, tQuiet, tEnvP, tV, tHelp, tWorld}

\* os.Args[1:]
OsArgVectors == SeqsUpTo(OsTokens, MaxRest + 1)

\* flag.CommandLine: the program declares one global flag.
CommandLine == Declare(NewFlagSet, fQuiet, "bool", FALSE)

NoMatch == [name |-> <<>>, command |-> "nil", requiredFlags |-> <<>>]

Printed(what)        == [ev |-> "print", what |-> what, args |-> <<>>]
Invoked(command, as) == [ev |-> "run", what |-> command, args |-> as]

\* The statuses flag.Parse exits with on -h or -help under ExitOnError: 2, and
\* 0 since Go 1.15.
HelpExitCodes == {0, 2}

ExitCodesOf(err) == IF err = ErrHelp THEN HelpExitCodes ELSE {2}

BoolText(b) == IF b THEN "true" ELSE "false"

GlobalInit ==
    /\ osArgs \in OsArgVectors
    /\ cmds = NoEntries
    /\ matchingCmd = NoMatch
    /\ args = <<>>
    /\ flagHelp = "nil"
    /\ flagUsage = "default"
    /\ pc = "running"
    /\ exitCode = 0
    /\ gOp = "none"
    /\ evs = <<>>
    /\ gret = NilErr

\* The cmdCont that On builds.
NewCont(name, command, requiredFlags) ==
    [name |-> name, command |-> command, requiredFlags |-> requiredFlags]

\* On(name, description, command, requiredFlags)
On(name, command, requiredFlags) ==
    /\ pc = "running"
    /\ cmds' = Store(cmds, name, NewCont(name, command, requiredFlags))
    /\ gOp' = "On"
    /\ evs' = <<>>
    /\ UNCHANGED <<osArgs, matchingCmd, args, flagHelp, flagUsage, pc, exitCode, gret>>

\* os.Exit(code), after printing what
Exit(what, code) ==
    /\ evs' = <<Printed(what)>>
    /\ pc' = "exited"
    /\ exitCode' = code

\* fs := cont.command.Flags(flag.NewFlagSet(name, flag.ExitOnError))
\* flagHelp = fs.Bool("h", false, "")
SubFlagSet(cont) == Declare(CmdFlags(cont.command, NewFlagSet), fHelp, "bool", FALSE)

\* The status Parse exits with after printing usage.
UsageExitCode == 1

\* Mutant of FlagMap: no required flag is ever reported missing.
FlagMap_Empty(requiredFlags, fs) == {}

\* flagMap: the required names less the names fs.Visit reports.
FlagMap(requiredFlags, fs) == Range(requiredFlags) \ Visited(fs)

\* Parse()
Parse ==
    /\ pc = "running"
    /\ gOp' = "Parse"
    /\ UNCHANGED <<osArgs, cmds, gret>>
    /\ LET g == FlagParse(CommandLine, osArgs) IN
       IF g.err # NilErr
       THEN \* flag.Parse() exits by itself (flag.ExitOnError)
            /\ \E code \in ExitCodesOf(g.err) : Exit(flagUsage, code)
            /\ UNCHANGED <<matchingCmd, args, flagHelp, flagUsage>>
       ELSE IF Cardinality(DOMAIN cmds) < 1
       THEN /\ evs' = <<>>
            /\ UNCHANGED <<matchingCmd, args, flagHelp, flagUsage, pc, exitCode>>
       ELSE
       /\ flagUsage' = "Usage"
       /\ IF Len(g.fs.args) < 1
          THEN /\ Exit("Usage", UsageExitCode)
               /\ UNCHANGED <<matchingCmd, args, flagHelp>>
          ELSE IF g.fs.args[1] \in DOMAIN cmds
          THEN LET cont == cmds[g.fs.args[1]]
                   p    == FlagParse(SubFlagSet(cont), Tail(g.fs.args))
               IN  /\ flagHelp' = BoolText(p.fs.value[fHelp])
                   /\ IF p.err # NilErr
                      THEN \* fs.Parse exits by itself (flag.ExitOnError)
                           /\ \E code \in ExitCodesOf(p.err) : Exit("fs.defaultUsage", code)
                           /\ UNCHANGED <<matchingCmd, args>>
                      ELSE /\ args' = p.fs.args
                           /\ matchingCmd' = cont
                           /\ IF FlagMap(cont.requiredFlags, p.fs) # {}
                              THEN Exit("subcommandUsage", UsageExitCode)
                              ELSE /\ evs' = <<>>
                                   /\ UNCHANGED <<pc, exitCode>>
          ELSE /\ Exit("Usage", UsageExitCode)
               /\ UNCHANGED <<matchingCmd, args, flagHelp>>

\* Mutant of HelpPrinted: -h prints nothing.
HelpPrinted_Never(help) == <<>>

\* What Run() prints before it invokes the matched command.
HelpPrinted(help) == IF help = "true" THEN <<Printed("subcommandUsage")>> ELSE <<>>

\* Run()
GlobalRun ==
    /\ pc = "running"
    /\ gOp' = "Run"
    /\ UNCHANGED <<osArgs, cmds, matchingCmd, args, flagHelp, flagUsage, pc, exitCode>>
    /\ IF matchingCmd # NoMatch
       THEN /\ evs' = HelpPrinted(flagHelp) \o <<Invoked(matchingCmd.command, args)>>
            /\ \E r \in RunReturns : gret' = r
       ELSE /\ evs' = <<>>
            /\ gret' = NilErr

\* ------------------------------------------------------- specifications

vars == <<entries, lastAdd, lastOp, lastArgs, ret, ran,
          osArgs, cmds, matchingCmd, args, flagHelp, flagUsage, pc, exitCode, gOp, evs, gret>>

\* The instance variant; the process-wide state is not touched.
Init ==
    /\ PathInit
    /\ GlobalInit
    /\ osArgs = <<>>

Next ==
    \/ \E g \in Regs : Add(g.name, g.command, g.requiredFlags) /\ UNCHANGED globalVars
    \/ \E a \in ArgVectors : Run(a) /\ UNCHANGED globalVars

Spec == Init /\ [][Next]_vars

\* The process-wide variant; no Path is touched.
InitGlobal ==
    /\ PathInit
    /\ GlobalInit

NextGlobal ==
    \/ \E g \in Regs : On(g.name, g.command, g.requiredFlags) /\ UNCHANGED pathVars
    \/ Parse /\ UNCHANGED pathVars
    \/ GlobalRun /\ UNCHANGED pathVars

SpecGlobal == InitGlobal /\ [][NextGlobal]_vars

\* ---------------------------------------------------------------- claims

\* The last operation was a Path.Run that found an entry for args[0].
Matched ==
    /\ lastOp = "Run"
    /\ Len(lastArgs) >= 1
    /\ lastArgs[1] \in DOMAIN entries

\* The entry the last Path.Run found.
Entry == entries[lastArgs[1]]

\* What parsing this call's args[1:] gives on a flag set of the entry's command
\* that no earlier call has touched.
ThisCall == FlagParse(CmdFlags(Entry.Cmd, NewFlagSet), Tail(lastArgs))

\* The required flags of the entry that this call's arguments do not set.
NotInThisCall == Range(Entry.RequiredFlags) \ ThisCall.fs.actual

\* Byte order of the characters of flag names.
CharCode(c) ==
    CASE c = "e" -> 101
      [] c = "h" -> 104
      [] c = "q" -> 113
      [] c = "v" -> 118
      [] OTHER   -> 0

\* a < b as strings.
RECURSIVE NameLess(_, _)
NameLess(a, b) ==
    IF Len(b) = 0 THEN FALSE
    ELSE IF Len(a) = 0 THEN TRUE
    ELSE IF CharCode(Head(a)) # CharCode(Head(b))
         THEN CharCode(Head(a)) < CharCode(Head(b))
         ELSE NameLess(Tail(a), Tail(b))

\* The names of S in ascending order.
Sorted(S) ==
    CHOOSE q \in MapOrders(S) : \A i, j \in DOMAIN q : i < j => NameLess(q[i], q[j])

\* C1: in every Path.Run call, also after earlier calls on the same registry, a
\* required flag of the matched entry that this call's arguments do not set
\* counts as missing (the call returns the entry with a required-flags-not-set
\* error and runs nothing), and one they do set counts as set.
C1_RequiredFlagOfThisCall ==
    (Matched /\ ThisCall.err = NilErr) =>
        IF NotInThisCall # {}
        THEN /\ ret.cont = ContOf(Entry)
             /\ ret.err.kind = "RequiredFlagsNotSet"
             /\ ran = <<>>
        ELSE ret.err.kind # "RequiredFlagsNotSet"

\* C2: when Path.Run runs the matched command, the command receives exactly the
\* tokens left over from this call's args[1:], in their order; Run(name) alone
\* passes no arguments, whatever earlier calls carried.
C2_RunReceivesLeftoverOfThisCall ==
    (Matched /\ ran # <<>>) => ran[1].args = ThisCall.fs.args

\* C3: a required-flags-not-set error carries exactly the required names that
\* the flag set does not report as set, each once, in sorted order.
C3_MissingNamesSorted ==
    (lastOp = "Run" /\ ret.err.kind = "RequiredFlagsNotSet") =>
        ret.err.keys = Sorted(Range(Entry.RequiredFlags) \ Entry.Flags.actual)

\* C4: Path.Run returns no entry and ErrCmdUsage, and invokes no command,
\* whenever the registry is empty or the argument vector is empty.
C4_UsageError ==
    (lastOp = "Run" /\ (DOMAIN entries = {} \/ lastArgs = <<>>)) =>
        /\ ret = [cont |-> NoCont, err |-> ErrCmdUsage]
        /\ ran = <<>>

C4_Witness ==
    /\ lastOp = "Run"
    /\ DOMAIN entries # {}
    /\ lastArgs = <<>>
    /\ ret.err = ErrCmdUsage

\* The argument vector of a Path.Run names no registered command, on a registry
\* with at least one entry.
Unregistered(es, argv) ==
    /\ DOMAIN es # {}
    /\ Len(argv) >= 1
    /\ argv[1] \notin DOMAIN es

\* C5: on a registry with at least one entry, Path.Run of a vector whose first
\* element is not a registered name returns no entry and ErrNoSuchCmd, runs no
\* command and leaves every entry's flag set as it was (nothing is parsed).
C5_NoSuchCommand ==
    [][(lastOp' = "Run" /\ Unregistered(entries, lastArgs')) =>
          /\ ret' = [cont |-> NoCont, err |-> ErrNoSuchCmd]
          /\ ran' = <<>>
          /\ entries' = entries]_vars

C5_Witness ==
    /\ lastOp = "Run"
    /\ Unregistered(entries, lastArgs)
    /\ Len(lastArgs) > 1
    /\ ret.err = ErrNoSuchCmd

\* C6: after any sequence of Adds the registry holds one entry per registered
\* name, the entry of the last Add of the name, and a Run that runs a command
\* runs that one.
C6_LastAddWins ==
    /\ DOMAIN entries = DOMAIN lastAdd
    /\ \A n \in DOMAIN entries :
          /\ entries[n].Name = n
          /\ entries[n].Cmd = lastAdd[n].command
    /\ (Matched /\ ran # <<>>) =>
          /\ ran[1].cmd = lastAdd[lastArgs[1]].command
          /\ ret.cont = [Name |-> lastArgs[1], Cmd |-> lastAdd[lastArgs[1]].command]

C6_Witness ==
    /\ Matched
    /\ lastAdd[lastArgs[1]].replaced
    /\ ran # <<>>
    /\ ran[1].cmd = lastAdd[lastArgs[1]].command

\* C7: when Path.Run reaches the command's run operation it returns the matched
\* entry and exactly what the run operation returned.
C7_RunErrorPassedThrough ==
    (Matched /\ ran # <<>>) =>
        ret = [cont |-> [Name |-> lastArgs[1], Cmd |-> ran[1].cmd],
               err  |-> ran[1].returned]

C7_Witness ==
    /\ Matched
    /\ ran # <<>>
    /\ ran[1].returned # NilErr
    /\ ret.err = ran[1].returned

\* C8: within one Path.Run the run operation is invoked at most once, and only
\* when the parse of args[1:] gave no error and no required flag is reported
\* missing; on a parse error Run returns the entry with that error, and neither
\* a required-flags error nor the run operation is reached.
C8_ParseCheckRunOrder ==
    Matched =>
        /\ Len(ran) <= 1
        /\ ThisCall.err # NilErr =>
              /\ ret = [cont |-> ContOf(Entry), err |-> ThisCall.err]
              /\ ran = <<>>
        /\ ran # <<>> =>
              /\ ThisCall.err = NilErr
              /\ Range(Entry.RequiredFlags) \ Entry.Flags.actual = {}

C8_Witness ==
    /\ Matched
    /\ ThisCall.err # NilErr
    /\ Range(Entry.RequiredFlags) \ Entry.Flags.actual # {}
    /\ ret.err = ThisCall.err
    /\ ran = <<>>

\* What flag.Parse() makes of the process's arguments.
GlobalParse == FlagParse(CommandLine, osArgs)

\* What parsing the subcommand's arguments gives for the container cont.
SubParse(cont) == FlagParse(SubFlagSet(cont), Tail(GlobalParse.fs.args))

\* The process's arguments set the subcommand's -h to true.
HelpGiven == SubParse(matchingCmd).fs.value[fHelp]

RunEvents == SelectSeq(evs, LAMBDA e : e.ev = "run")

ExitedWithUsage(what) ==
    /\ pc = "exited"
    /\ exitCode # 0
    /\ evs = <<Printed(what)>>

\* C10 as stated: with zero registered subcommands Parse returns without exiting
\* (and the following Run returns nil, invoking nothing); with at least one,
\* Parse prints usage and exits non-zero when no name is given, when the name is
\* not registered or when a required flag was not set.
C10_ParseExits ==
    /\ (gOp = "Parse" /\ DOMAIN cmds = {}) => pc = "running"
    /\ (gOp = "Run" /\ DOMAIN cmds = {}) => (gret = NilErr /\ evs = <<>>)
    /\ (gOp = "Parse" /\ DOMAIN cmds # {} /\ GlobalParse.err = NilErr) =>
          LET left == GlobalParse.fs.args IN
          IF Len(left) < 1 \/ left[1] \notin DOMAIN cmds
          THEN ExitedWithUsage("Usage")
          ELSE (/\ SubParse(cmds[left[1]]).err = NilErr
                /\ Range(cmds[left[1]].requiredFlags)
                      \ SubParse(cmds[left[1]]).fs.actual # {})
                  => ExitedWithUsage("subcommandUsage")
    /\ pc = "exited" => (gOp = "Parse" /\ RunEvents = <<>>)

\* C10, amended: the same, for process arguments that the global flag.Parse()
\* accepts; on arguments it rejects (an undefined global flag, -h) flag.Parse()
\* itself ends the process, with status 2 or 0, whatever is registered.
C10_ParseExitsAfterGlobalParse ==
    /\ (gOp = "Parse" /\ DOMAIN cmds = {} /\ GlobalParse.err = NilErr) =>
          (pc = "running" /\ evs = <<>> /\ matchingCmd = NoMatch)
    /\ (gOp = "Parse" /\ GlobalParse.err # NilErr) =>
          (pc = "exited" /\ exitCode \in {0, 2} /\ RunEvents = <<>>)
    /\ (gOp = "Run" /\ DOMAIN cmds = {}) => (gret = NilErr /\ evs = <<>>)
    /\ (gOp = "Parse" /\ DOMAIN cmds # {} /\ GlobalParse.err = NilErr) =>
          LET left == GlobalParse.fs.args IN
          IF Len(left) < 1 \/ left[1] \notin DOMAIN cmds
          THEN ExitedWithUsage("Usage")
          ELSE (/\ SubParse(cmds[left[1]]).err = NilErr
                /\ Range(cmds[left[1]].requiredFlags)
                      \ SubParse(cmds[left[1]]).fs.actual # {})
                  => ExitedWithUsage("subcommandUsage")
    /\ pc = "exited" => (gOp = "Parse" /\ RunEvents = <<>>)

C10_Witness ==
    /\ gOp = "Parse"
    /\ GlobalParse.err = NilErr
    /\ Len(GlobalParse.fs.args) > 1
    /\ GlobalParse.fs.args[1] \in DOMAIN cmds
    /\ ExitedWithUsage("subcommandUsage")
    /\ exitCode = UsageExitCode

====
